---- MODULE Spec2Model ----
(***************************************************************************)
(* CLO compliance checker: the orchestrator (main.py), the data loader,    *)
(* the document processor and the compliance engine, as state machines.    *)
(* Text is kept at character level: a Python str is a TLA+ string, and     *)
(* str.upper()/str.lower() yield the tuple of its converted characters.    *)
(***************************************************************************)
EXTENDS Integers, Sequences, FiniteSets, Bags, TLC

VARIABLES
    pc,             \* position of the running operation
    api_key,        \* ComplianceEngine.api_key is set (TRUE) or mock mode (FALSE)
    stips_exists,   \* the stipulations file exists
    stips,          \* the list load_stips returned
    document_text,  \* the text load_pdf returned
    sections,       \* the dict extract_sections returned
    results,        \* the list of result rows
    calls,          \* the oracle calls made so far, one record per call
    summary,        \* the dict create_summary_report builds
    sum_i,          \* number of results the summary loop has consumed
    report,         \* the report file: whether written, and its rows
    ret,            \* what run_compliance_check returned
    compiled_patterns, \* DocumentProcessor.compiled_patterns: the names it holds
    loc_name,       \* section name handed to _find_section
    loc_result,     \* what _find_section returned
    loc_again,      \* what a second _find_section call with the same arguments returned
    ext_lines,      \* the lines handed to _extract_until_next_section
    ext_max_lines,  \* its max_lines argument (None when left out)
    ext_content,    \* what _extract_until_next_section returned
    llm_response,   \* the response text handed to a response parser
    parsed,         \* what _parse_compliance_response returned
    cov_i,          \* number of response lines the covenant loop has consumed
    current_covenant, \* _parse_covenant_response's current_covenant
    covenants       \* _parse_covenant_response's covenants list

extract_vars == <<ext_lines, ext_max_lines, ext_content>>
parse_vars == <<llm_response, parsed, cov_i, current_covenant, covenants>>
run_vars == <<api_key, stips_exists, stips, document_text, sections, results, calls,
              summary, sum_i, report, ret>>
locate_vars == <<compiled_patterns, loc_name, loc_result, loc_again>>

vars == <<pc, run_vars, locate_vars, extract_vars, parse_vars>>

(***************************************************************************)
(* Bounds of the model.                                                    *)
(***************************************************************************)
MaxResults == 3
MaxStips == 2
MaxDocLines == 3
MaxResponseLines == 3

(***************************************************************************)
(* Python values.                                                          *)
(***************************************************************************)
None == [py |-> "None"]
NoReport == [written |-> FALSE, rows |-> <<>>]
EmptyDict == [k \in {} |-> ""]

\* dict.get(key, default)
Get(d, key, default) == IF key \in DOMAIN d THEN d[key] ELSE default

Min(a, b) == IF a <= b THEN a ELSE b

(***************************************************************************)
(* Characters and strings.                                                 *)
(***************************************************************************)
LowerAlpha == "abcdefghijklmnopqrstuvwxyz"
UpperAlpha == "ABCDEFGHIJKLMNOPQRSTUVWXYZ"
Digits == {"0", "1", "2", "3", "4", "5", "6", "7", "8", "9"}
\* \s of the re module and the characters str.strip() removes
\* (a line never holds "\n": it comes from split('\n'))
Whitespace == {" ", "\t", "\r"}

CharAt(s, i) == SubSeq(s, i, i)
Chars(s) == [i \in 1..Len(s) |-> CharAt(s, i)]

UpperOf ==
    [c \in {CharAt(LowerAlpha, i) : i \in 1..26} |->
        CharAt(UpperAlpha, CHOOSE i \in 1..26 : CharAt(LowerAlpha, i) = c)]
LowerOf ==
    [c \in {CharAt(UpperAlpha, i) : i \in 1..26} |->
        CharAt(LowerAlpha, CHOOSE i \in 1..26 : CharAt(UpperAlpha, i) = c)]

\* str.upper(), str.lower(): the converted characters, in order
str_upper(s) ==
    [i \in 1..Len(s) |->
        IF CharAt(s, i) \in DOMAIN UpperOf THEN UpperOf[CharAt(s, i)] ELSE CharAt(s, i)]
str_lower(s) ==
    [i \in 1..Len(s) |->
        IF CharAt(s, i) \in DOMAIN LowerOf THEN LowerOf[CharAt(s, i)] ELSE CharAt(s, i)]

\* needle in hay, on character tuples
Contains(hay, needle) ==
    \E i \in 0..(Len(hay) - Len(needle)) : \A j \in 1..Len(needle) : hay[i + j] = needle[j]


(***************************************************************************)
(* config/settings.py                                                      *)
(***************************************************************************)
\* the names of REGEX_PATTERNS
REGEX_PATTERNS ==
    {"section_header", "covenant_trigger", "percentage", "dollar_amount",
     "date_pattern", "oc_ratio", "ic_ratio", "concentration_limit",
     "rating_threshold"}

DOCUMENT_SECTIONS ==
    <<"Definitions", "Covenants", "Events of Default", "Collateral",
      "Payment Priority", "Coverage Tests", "Concentration Limits",
      "Rating Requirements">>

\* [-–—] of section_header; the en and em dash cannot be written
\* in a string of this module, so no text of the model holds them
Dashes == {"-"}

\* \d+(?:\.\d+)* matches the whole of t
IsSectionNumber(t) ==
    /\ Len(t) >= 1
    /\ \A i \in 1..Len(t) : CharAt(t, i) \in Digits \cup {"."}
    /\ CharAt(t, 1) \in Digits
    /\ CharAt(t, Len(t)) \in Digits
    /\ \A i \in 1..(Len(t) - 1) : ~(CharAt(t, i) = "." /\ CharAt(t, i + 1) = ".")

\* REGEX_PATTERNS['section_header'], compiled with IGNORECASE | MULTILINE:
\*   ^(?:SECTION|Article)\s+(\d+(?:\.\d+)*)\s*[-–—]\s*(.+?)$
\* pattern.match(s) finds a match, for s without a line break
\* (i: first character of the number, j: its last, k: the dash)
SectionHeaderMatch(s) ==
    /\ Len(s) >= 7
    /\ str_lower(SubSeq(s, 1, 7)) \in {Chars("section"), Chars("article")}
    /\ \E i \in 9..Len(s) : \E j \in i..Len(s) : \E k \in (j + 1)..(Len(s) - 1) :
          /\ \A p \in 8..(i - 1) : CharAt(s, p) \in Whitespace
          /\ IsSectionNumber(SubSeq(s, i, j))
          /\ \A p \in (j + 1)..(k - 1) : CharAt(s, p) \in Whitespace
          /\ CharAt(s, k) \in Dashes

(***************************************************************************)
(* str.split('\n'), '\n'.join, str.strip                                   *)
(***************************************************************************)
Split(text) ==
    LET nl == {i \in 1..Len(text) : CharAt(text, i) = "\n"}
        n == Cardinality(nl) + 1
        cut(k) == IF k = 0 THEN 0
                  ELSE IF k = n THEN Len(text) + 1
                  ELSE CHOOSE p \in nl : Cardinality({q \in nl : q <= p}) = k
    IN  [k \in 1..n |-> SubSeq(text, cut(k - 1) + 1, cut(k) - 1)]

RECURSIVE Join(_)
Join(lines) ==
    IF Len(lines) = 0 THEN ""
    ELSE IF Len(lines) = 1 THEN lines[1]
    ELSE lines[1] \o "\n" \o Join(Tail(lines))

Strip(s) ==
    LET keep == {i \in 1..Len(s) : CharAt(s, i) \notin Whitespace}
    IN  IF keep = {} THEN ""
        ELSE SubSeq(s, CHOOSE i \in keep : \A j \in keep : i <= j,
                       CHOOSE i \in keep : \A j \in keep : i >= j)

(***************************************************************************)
(* DocumentProcessor                                                       *)
(***************************************************************************)
DEFAULT_MAX_SECTION_LINES == 100

Some(text) == [str |-> text]

Max(a, b) == IF a >= b THEN a ELSE b

\* an int argument that was given (None stands for one left out)
Given(n) == [int |-> n]

\* document_processor.py 122-123
MaxLinesOrDefault(max_lines) ==
    IF max_lines = None THEN DEFAULT_MAX_SECTION_LINES ELSE max_lines.int

\* the stop of the Python slice lines[1:stop] on a list of n items, as a
\* count of items from the start: a negative stop counts from the end
SliceStop(n, stop) == IF stop < 0 THEN Max(n + stop, 0) ELSE Min(stop, n)

\* an extraction that never looks at the line budget
ExtractIgnoringBudget(patterns, lines, max_lines) ==
    LET stops == {i \in 2..Len(lines) :
                     "section_header" \in patterns /\ SectionHeaderMatch(Strip(lines[i]))}
        last == IF stops = {} THEN Len(lines)
                ELSE (CHOOSE i \in stops : \A j \in stops : i <= j) - 1
    IN  Join(SubSeq(lines, 1, last))

\* document_processor.py 125-134; lines[1:max_lines] are the positions
\* 2..SliceStop of the list, lines[0] is kept whatever max_lines is
extract_until_next_section(patterns, lines, max_lines) ==
    LET stop == SliceStop(Len(lines), max_lines)
        stops == {i \in 2..stop :
                     "section_header" \in patterns /\ SectionHeaderMatch(Strip(lines[i]))}
        last == IF stops = {} THEN Max(stop, 1)
                ELSE (CHOOSE i \in stops : \A j \in stops : i <= j) - 1
    IN  Join(SubSeq(lines, 1, last))

\* a locator that starts the span at the last matching line
FindSectionLastMatch(patterns, text, section_name) ==
    IF "section_header" \notin patterns THEN None
    ELSE LET lines == Split(text)
             hits == {i \in 1..Len(lines) :
                         Contains(str_lower(lines[i]), str_lower(section_name))}
         IN  IF hits = {} THEN None
             ELSE LET last == CHOOSE i \in hits : \A j \in hits : i >= j
                  IN  Some(extract_until_next_section(
                               patterns, SubSeq(lines, last, Len(lines)),
                               MaxLinesOrDefault(None)))

\* document_processor.py 85-109
find_section(patterns, text, section_name) ==
    IF "section_header" \notin patterns THEN None
    ELSE LET lines == Split(text)
             hits == {i \in 1..Len(lines) :
                         Contains(str_lower(lines[i]), str_lower(section_name))}
         IN  IF hits = {} THEN None
             ELSE LET first == CHOOSE i \in hits : \A j \in hits : i <= j
                  IN  Some(extract_until_next_section(
                               patterns, SubSeq(lines, first, Len(lines)),
                               MaxLinesOrDefault(None)))

\* document_processor.py 62-83: the dict of the sections found, an empty
\* content counting as not found
extract_sections(patterns, text, section_names) ==
    LET found == {k \in 1..Len(section_names) :
                     LET c == find_section(patterns, text, section_names[k])
                     IN  c # None /\ c.str # ""}
    IN  [name \in {section_names[k] : k \in found} |->
            find_section(patterns, text, name).str]

(***************************************************************************)
(* DataLoader.create_summary_report                                        *)
(***************************************************************************)
\* data_loader.py 237-242
SummaryStart(rs) ==
    [total_checks |-> Len(rs), passed |-> 0, failed |-> 0, unclear |-> 0]

\* a loop body that stops counting at the first FAIL
SummaryCountFailFast(s, result) ==
    LET status == str_upper(Get(result, "status", "UNCLEAR"))
    IN  IF s.failed > 0 THEN s
        ELSE IF status = Chars("PASS") THEN [s EXCEPT !.passed = @ + 1]
        ELSE IF status = Chars("FAIL") THEN [s EXCEPT !.failed = @ + 1]
        ELSE [s EXCEPT !.unclear = @ + 1]

\* a loop body that counts only the status UNCLEAR as unclear
SummaryCountDropUnknown(s, result) ==
    LET status == str_upper(Get(result, "status", "UNCLEAR"))
    IN  IF status = Chars("PASS") THEN [s EXCEPT !.passed = @ + 1]
        ELSE IF status = Chars("FAIL") THEN [s EXCEPT !.failed = @ + 1]
        ELSE IF status = Chars("UNCLEAR") THEN [s EXCEPT !.unclear = @ + 1]
        ELSE s

\* a loop body where an unknown status also counts as failed
SummaryCountUnknownFails(s, result) ==
    LET status == str_upper(Get(result, "status", "UNCLEAR"))
    IN  IF status = Chars("PASS") THEN [s EXCEPT !.passed = @ + 1]
        ELSE IF status = Chars("FAIL") THEN [s EXCEPT !.failed = @ + 1]
        ELSE [s EXCEPT !.unclear = @ + 1, !.failed = @ + 1]

\* data_loader.py 245-251: the body of the loop, for one result
SummaryCount(s, result) ==
    LET status == str_upper(Get(result, "status", "UNCLEAR"))
    IN  IF status = Chars("PASS") THEN [s EXCEPT !.passed = @ + 1]
        ELSE IF status = Chars("FAIL") THEN [s EXCEPT !.failed = @ + 1]
        ELSE [s EXCEPT !.unclear = @ + 1]

RECURSIVE SummaryFold(_, _, _)
SummaryFold(s, rs, k) ==
    IF k > Len(rs) THEN s ELSE SummaryFold(SummaryCount(s, rs[k]), rs, k + 1)

\* data_loader.py 227-254
create_summary_report(rs) == SummaryFold(SummaryStart(rs), rs, 1)

(***************************************************************************)
(* Result records handed to create_summary_report on its own.              *)
(***************************************************************************)
SummaryStatuses == {"PASS", "FAIL", "UNCLEAR", "AMBIGUOUS", "ERROR", "pass", "Fail"}

SummaryRecords ==
    {[k \in {"stip_id"} |-> "1"]}
        \cup {[stip_id |-> "1", status |-> st] : st \in SummaryStatuses}

SummaryInputs == UNION {[1..n -> SummaryRecords] : n \in 0..MaxResults}

\* the parts of the state an operation run on its own does not use
IdleExtract == ext_lines = <<>> /\ ext_max_lines = None /\ ext_content = None
IdleParse ==
    /\ llm_response = ""
    /\ parsed = None
    /\ cov_i = 0
    /\ current_covenant = EmptyDict
    /\ covenants = <<>>

Idle ==
    /\ IdleExtract
    /\ IdleParse
    /\ loc_again = None
    /\ api_key = FALSE
    /\ stips_exists = FALSE
    /\ stips = <<>>
    /\ document_text = ""
    /\ sections = EmptyDict
    /\ calls = <<>>
    /\ report = NoReport
    /\ ret = None
    /\ compiled_patterns = REGEX_PATTERNS
    /\ loc_name = ""
    /\ loc_result = None

InitSummary ==
    /\ pc = "summary_call"
    /\ results \in SummaryInputs
    /\ summary = None
    /\ sum_i = 0
    /\ Idle

\* data_loader.py 237-242
SummaryEnter ==
    /\ pc = "summary_call"
    /\ summary' = SummaryStart(results)
    /\ sum_i' = 0
    /\ pc' = "summary_loop"
    /\ UNCHANGED <<loc_again, extract_vars, parse_vars>>
    /\ UNCHANGED <<api_key, stips_exists, stips, document_text, sections, results, calls,
                   report, ret, compiled_patterns, loc_name, loc_result>>

\* data_loader.py 244-251: one iteration
SummaryLoop ==
    /\ pc = "summary_loop"
    /\ sum_i < Len(results)
    /\ summary' = SummaryCount(summary, results[sum_i + 1])
    /\ sum_i' = sum_i + 1
    /\ UNCHANGED <<loc_again, extract_vars, parse_vars>>
    /\ UNCHANGED <<pc, api_key, stips_exists, stips, document_text, sections, results, calls,
                   report, ret, compiled_patterns, loc_name, loc_result>>

\* data_loader.py 253-254
SummaryReturn ==
    /\ pc = "summary_loop"
    /\ sum_i = Len(results)
    /\ pc' = "summary_done"
    /\ UNCHANGED <<loc_again, extract_vars, parse_vars>>
    /\ UNCHANGED <<api_key, stips_exists, stips, document_text, sections, results, calls,
                   summary, sum_i, report, ret, compiled_patterns, loc_name, loc_result>>

NextSummary == SummaryEnter \/ SummaryLoop \/ SummaryReturn

SpecSummary == InitSummary /\ [][NextSummary]_vars


(***************************************************************************)
(* ComplianceEngine                                                        *)
(***************************************************************************)
\* PROMPT_TEMPLATES['compliance_check'], around its two fields
PromptHead ==
    "\nYou are a CLO compliance expert. Analyze the following document section and determine if it complies with the given rule.\n\nDocument Section:\n"
PromptMid == "\n\nRule/Stipulation:\n"
PromptTail ==
    "\n\nPlease provide:\n1. Compliance Status: PASS/FAIL/UNCLEAR\n2. Explanation: Brief reasoning for your determination\n3. Relevant Excerpts: Quote specific text from the document that supports your conclusion\n"

\* compliance_engine.py 60-63: prompt_template.format(...)
format_prompt(document_section, rule) ==
    PromptHead \o document_section \o PromptMid \o rule \o PromptTail

MockResponse ==
    "\nCompliance Status: PASS\nExplanation: The document section contains appropriate provisions that meet the specified requirement.\nRelevant Excerpts: [Mock excerpt from document]\n"

\* What the service call of _query_llm does: it returns a text or raises.
OracleResponses ==
    {"Mock LLM response",
     "Compliance Status: PASS\nExplanation:\nThe limit is met.",
     "Compliance Status: FAIL\nExplanation:\nThe limit is looser.\nRelevant Excerpts:\nMax 10%",
     "The passage is silent on this point."}
OracleErrors == {"Request timed out", "Connection failed"}
OracleOutcomes ==
    {[kind |-> "ok", text |-> t] : t \in OracleResponses}
        \cup {[kind |-> "raise", text |-> m] : m \in OracleErrors}

\* compliance_engine.py 84-111
query_llm(key, prompt, outcome) ==
    IF ~key THEN MockResponse
    ELSE IF outcome.kind = "ok" THEN outcome.text
    ELSE "ERROR: " \o outcome.text

\* a status parse that looks for FAIL before PASS
ParseStatusFailFirst(response) ==
    IF Contains(str_upper(response), Chars("FAIL")) THEN "FAIL"
    ELSE IF Contains(str_upper(response), Chars("PASS")) THEN "PASS"
    ELSE "UNCLEAR"

\* compliance_engine.py 124, 130-133
ParseStatus(response) ==
    IF Contains(str_upper(response), Chars("PASS")) THEN "PASS"
    ELSE IF Contains(str_upper(response), Chars("FAIL")) THEN "FAIL"
    ELSE "UNCLEAR"

\* compliance_engine.py 136-141: the line after the last line that holds
\* the key (for excerpts: and does not hold 'explanation'), '' if none follows
ParseField(response, key, unless) ==
    LET lines == Split(response)
        hits == {i \in 1..Len(lines) :
                    /\ Contains(str_lower(lines[i]), Chars(key))
                    /\ unless = "" \/ ~Contains(str_lower(lines[i]), Chars(unless))}
    IN  IF hits = {} THEN ""
        ELSE LET i == CHOOSE i \in hits : \A j \in hits : i >= j
             IN  IF i + 1 <= Len(lines) THEN lines[i + 1] ELSE ""

\* compliance_engine.py 113-143
parse_compliance_response(response) ==
    [status |-> ParseStatus(response),
     explanation |-> ParseField(response, "explanation", ""),
     excerpts |-> ParseField(response, "excerpt", "explanation")]

\* compliance_engine.py 40-71
check_compliance(key, document_section, rule, outcome) ==
    parse_compliance_response(
        query_llm(key, format_prompt(document_section, rule), outcome))

(***************************************************************************)
(* DataLoader.load_stips, validate_stips_format                            *)
(***************************************************************************)
\* data_loader.py 63-76: the two records load_stips returns
PlaceholderStips ==
    <<[id |-> "1", category |-> "Coverage Test",
       description |-> "OC Ratio must exceed 100%", section |-> "Article 5"],
      [id |-> "2", category |-> "Concentration Limit",
       description |-> "No single obligor exceeds 10%", section |-> "Article 7"]>>

\* Records a stipulations file can hold (data_loader.py 57-60): the first
\* of the two above, one whose section is a name of DOCUMENT_SECTIONS, one
\* without a section, one without a category.
StipRecords ==
    {PlaceholderStips[1],
     [id |-> "3", category |-> "Concentration Limit",
      description |-> "Max 7.5%", section |-> "Covenants"],
     [id |-> "4", category |-> "Eligibility", description |-> "No carveouts"],
     [id |-> "5", description |-> "Max 5%", section |-> "Covenants"]}

StipLists == {PlaceholderStips} \cup UNION {[1..n -> StipRecords] : n \in 0..MaxStips}

required_fields == {"id", "category", "description"}

\* data_loader.py 192-211
validate_stips_format(ss) ==
    \A k \in 1..Len(ss) : \A field \in required_fields : field \in DOMAIN ss[k]

(***************************************************************************)
(* Documents load_pdf can return.                                          *)
(***************************************************************************)
\* document_processor.py 60
PlaceholderText == "PDF content would be extracted here"

Clause ==
    "The Issuer shall not permit the Aggregate Principal Balance of obligations of any single obligor to exceed 10%. "
LongBody == Clause \o Clause \o Clause \o Clause \o Clause \o Clause \o Clause \o Clause \o Clause \o Clause

Documents ==
    {PlaceholderText,
     "",
     "Article 5 - Coverage Tests\nOC Ratio of 120%\nArticle 7 - Concentration Limits\nlimit of 7.5%",
     "Covenants\n" \o LongBody \o "\nMax 10%"}

(***************************************************************************)
(* CLOComplianceOrchestrator.run_compliance_check                          *)
(***************************************************************************)
FallbackChars == 1000

\* main.py 112: document_text[:1000]
FallbackText(text) == SubSeq(text, 1, Min(FallbackChars, Len(text)))

\* {**a, **b}
Merge(a, b) ==
    [k \in DOMAIN a \cup DOMAIN b |-> IF k \in DOMAIN b THEN b[k] ELSE a[k]]

\* a row that takes its id from the category of the stipulation
ResultRowWrongId(stip, section_name, check_result) ==
    Merge([stip_id |-> Get(stip, "category", ""),
           category |-> Get(stip, "category", ""),
           description |-> Get(stip, "description", ""),
           section |-> section_name],
          check_result)

\* main.py 122-128
ResultRow(stip, section_name, check_result) ==
    Merge([stip_id |-> Get(stip, "id", ""),
           category |-> Get(stip, "category", ""),
           description |-> Get(stip, "description", ""),
           section |-> section_name],
          check_result)

Init ==
    /\ pc = "start"
    /\ IdleExtract
    /\ IdleParse
    /\ loc_again = None
    /\ api_key \in BOOLEAN
    /\ stips_exists = FALSE
    /\ stips = <<>>
    /\ document_text = ""
    /\ sections = EmptyDict
    /\ results = <<>>
    /\ calls = <<>>
    /\ summary = None
    /\ sum_i = 0
    /\ report = NoReport
    /\ ret = None
    /\ compiled_patterns = REGEX_PATTERNS
    /\ loc_name = ""
    /\ loc_result = None

\* main.py 84-85, data_loader.py 46-76
LoadStips ==
    /\ pc = "start"
    /\ \E exists \in BOOLEAN : \E list \in StipLists :
          /\ stips_exists' = exists
          /\ stips' = IF exists THEN list ELSE <<>>
    /\ pc' = "validate"
    /\ UNCHANGED <<loc_again, extract_vars, parse_vars>>
    /\ UNCHANGED <<api_key, document_text, sections, results, calls, summary,
                   sum_i, report, ret, compiled_patterns, loc_name, loc_result>>

\* main.py 88-90
ValidateStips ==
    /\ pc = "validate"
    /\ IF validate_stips_format(stips)
       THEN pc' = "load_pdf" /\ ret' = ret
       ELSE pc' = "done" /\ ret' = [error |-> "Invalid stipulations format"]
    /\ UNCHANGED <<loc_again, extract_vars, parse_vars>>
    /\ UNCHANGED <<api_key, stips_exists, stips, document_text, sections, results,
                   calls, summary, sum_i, report, compiled_patterns, loc_name,
                   loc_result>>

\* main.py 94-105
ProcessPdf ==
    /\ pc = "load_pdf"
    /\ \E text \in Documents :
          /\ document_text' = text
          /\ sections' = extract_sections(compiled_patterns, text, DOCUMENT_SECTIONS)
    /\ results' = <<>>
    /\ pc' = "check"
    /\ UNCHANGED <<loc_again, extract_vars, parse_vars>>
    /\ UNCHANGED <<api_key, stips_exists, stips, calls, summary, sum_i, report,
                   ret, compiled_patterns, loc_name, loc_result>>

\* main.py 107-129: one iteration of the loop, the oracle call included
CheckStip ==
    /\ pc = "check"
    /\ Len(results) < Len(stips)
    /\ \E outcome \in OracleOutcomes :
          LET stip == stips[Len(results) + 1]
              section_name == Get(stip, "section", DOCUMENT_SECTIONS[1])
              section_text == Get(sections, section_name, FallbackText(document_text))
              rule == Get(stip, "description", "")
              check_result == check_compliance(api_key, section_text, rule, outcome)
          IN  /\ calls' = Append(calls,
                     [stip |-> Len(results) + 1,
                      located |-> section_name \in DOMAIN sections,
                      document_section |-> section_text,
                      prompt |-> format_prompt(section_text, rule),
                      outcome |-> IF api_key THEN outcome
                                  ELSE [kind |-> "mock", text |-> MockResponse],
                      response |-> query_llm(api_key,
                                       format_prompt(section_text, rule), outcome)])
              /\ results' = Append(results, ResultRow(stip, section_name, check_result))
    /\ UNCHANGED <<loc_again, extract_vars, parse_vars>>
    /\ UNCHANGED <<pc, api_key, stips_exists, stips, document_text, sections,
                   summary, sum_i, report, ret, compiled_patterns, loc_name,
                   loc_result>>

\* main.py 133
Summarize ==
    /\ pc = "check"
    /\ Len(results) = Len(stips)
    /\ summary' = create_summary_report(results)
    /\ sum_i' = Len(results)
    /\ pc' = "save"
    /\ UNCHANGED <<loc_again, extract_vars, parse_vars>>
    /\ UNCHANGED <<api_key, stips_exists, stips, document_text, sections, results,
                   calls, report, ret, compiled_patterns, loc_name, loc_result>>

\* main.py 137-154, data_loader.py 136-147: one "Check i" block per row
SaveReport ==
    /\ pc = "save"
    /\ report' = [written |-> TRUE, rows |-> results]
    /\ ret' = [results |-> results, summary |-> summary,
               report_path |-> "output/compliance_report.txt"]
    /\ pc' = "done"
    /\ UNCHANGED <<loc_again, extract_vars, parse_vars>>
    /\ UNCHANGED <<api_key, stips_exists, stips, document_text, sections, results,
                   calls, summary, sum_i, compiled_patterns, loc_name, loc_result>>

Next == LoadStips \/ ValidateStips \/ ProcessPdf \/ CheckStip \/ Summarize \/ SaveReport

Spec == Init /\ [][Next]_vars


(***************************************************************************)
(* DocumentProcessor._find_section on its own.                             *)
(***************************************************************************)
LinePool ==
    {"Section 7.3 Concentration Limitations", "limit of 7.5%",
     "Section 7.4 Eligibility", "SECTION 7.4 - Eligibility", "Covenants"}

LocateDocuments ==
    {Join(ls) : ls \in UNION {[1..n -> LinePool] : n \in 0..MaxDocLines}}

LocateNames == {"Concentration Limitations", "Eligibility", "covenants"}

InitLocate ==
    /\ pc = "locate_call"
    /\ document_text \in LocateDocuments
    /\ loc_name \in LocateNames
    /\ compiled_patterns \in {REGEX_PATTERNS, REGEX_PATTERNS \ {"section_header"}}
    /\ loc_result = None
    /\ loc_again = None
    /\ IdleExtract
    /\ IdleParse
    /\ api_key = FALSE
    /\ stips_exists = FALSE
    /\ stips = <<>>
    /\ sections = EmptyDict
    /\ results = <<>>
    /\ calls = <<>>
    /\ summary = None
    /\ sum_i = 0
    /\ report = NoReport
    /\ ret = None

\* document_processor.py 85-109
Locate ==
    /\ pc = "locate_call"
    /\ loc_result' = find_section(compiled_patterns, document_text, loc_name)
    /\ pc' = "located"
    /\ UNCHANGED <<loc_again, extract_vars, parse_vars>>
    /\ UNCHANGED <<api_key, stips_exists, stips, document_text, sections, results,
                   calls, summary, sum_i, report, ret, compiled_patterns, loc_name>>

\* a second call that takes the section_header pattern out of the table
LocateAgainConsuming ==
    /\ pc = "located"
    /\ compiled_patterns' = compiled_patterns \ {"section_header"}
    /\ loc_again' = find_section(compiled_patterns', document_text, loc_name)
    /\ pc' = "located_again"
    /\ UNCHANGED <<run_vars, loc_name, loc_result, extract_vars, parse_vars>>

\* document_processor.py 85-109: a second call on the same processor with
\* the same arguments; the method reads self.compiled_patterns and assigns
\* nothing
LocateAgain ==
    /\ pc = "located"
    /\ loc_again' = find_section(compiled_patterns, document_text, loc_name)
    /\ pc' = "located_again"
    /\ UNCHANGED <<run_vars, compiled_patterns, loc_name, loc_result,
                   extract_vars, parse_vars>>

NextLocate == Locate \/ LocateAgain

SpecLocate == InitLocate /\ [][NextLocate]_vars


(***************************************************************************)
(* _extract_until_next_section run on its own, on lists of up to           *)
(* MaxDocLines lines and with every line budget around that length.        *)
(***************************************************************************)
ExtractLines == UNION {[1..n -> LinePool] : n \in 1..MaxDocLines}

MaxLinesArgs == {None} \cup {Given(m) : m \in (0 - 1)..MaxDocLines}

InitExtract ==
    /\ pc = "extract_call"
    /\ ext_lines \in ExtractLines
    /\ ext_max_lines \in MaxLinesArgs
    /\ ext_content = None
    /\ compiled_patterns \in {REGEX_PATTERNS, REGEX_PATTERNS \ {"section_header"}}
    /\ loc_name = ""
    /\ loc_result = None
    /\ loc_again = None
    /\ IdleParse
    /\ api_key = FALSE
    /\ stips_exists = FALSE
    /\ stips = <<>>
    /\ document_text = ""
    /\ sections = EmptyDict
    /\ results = <<>>
    /\ calls = <<>>
    /\ summary = None
    /\ sum_i = 0
    /\ report = NoReport
    /\ ret = None

\* document_processor.py 111-134
Extract ==
    /\ pc = "extract_call"
    /\ ext_content' = Some(extract_until_next_section(
                               compiled_patterns, ext_lines,
                               MaxLinesOrDefault(ext_max_lines)))
    /\ pc' = "extracted"
    /\ UNCHANGED <<ext_lines, ext_max_lines, run_vars, locate_vars, parse_vars>>

NextExtract == Extract

SpecExtract == InitExtract /\ [][NextExtract]_vars


(***************************************************************************)
(* The response parsers of ComplianceEngine run on their own, on response  *)
(* texts of up to MaxResponseLines lines.                                  *)
(***************************************************************************)
\* str.startswith
StartsWith(s, prefix) ==
    Len(s) >= Len(prefix) /\ SubSeq(s, 1, Len(prefix)) = prefix

\* line.split(':', 1)[1].strip(), for a line that holds a colon
AfterColon(s) ==
    LET colons == {i \in 1..Len(s) : CharAt(s, i) = ":"}
        first == CHOOSE i \in colons : \A j \in colons : i <= j
    IN  Strip(SubSeq(s, first + 1, Len(s)))

\* the state of the covenant loop before its first line
CovenantStart == [current_covenant |-> EmptyDict, covenants |-> <<>>]

\* covenants.append(current_covenant) if current_covenant is not empty
Flush(st) ==
    IF DOMAIN st.current_covenant # {}
    THEN Append(st.covenants, st.current_covenant)
    ELSE st.covenants

\* an iteration that attaches a threshold or condition to an empty
\* current_covenant as well
CovenantStepAttachOrphans(st, raw) ==
    LET line == Strip(raw)
    IN  IF StartsWith(line, "- Covenant Name:")
        THEN [current_covenant |-> [name |-> AfterColon(line)],
              covenants |-> Flush(st)]
        ELSE IF StartsWith(line, "Threshold:")
        THEN [st EXCEPT !.current_covenant =
                            Merge(@, [threshold |-> AfterColon(line)])]
        ELSE IF StartsWith(line, "Condition:")
        THEN [st EXCEPT !.current_covenant =
                            Merge(@, [condition |-> AfterColon(line)])]
        ELSE st

\* compliance_engine.py 207-215: one iteration of the loop
CovenantStep(st, raw) ==
    LET line == Strip(raw)
    IN  IF StartsWith(line, "- Covenant Name:")
        THEN [current_covenant |-> [name |-> AfterColon(line)],
              covenants |-> Flush(st)]
        ELSE IF StartsWith(line, "Threshold:") /\ DOMAIN st.current_covenant # {}
        THEN [st EXCEPT !.current_covenant =
                            Merge(@, [threshold |-> AfterColon(line)])]
        ELSE IF StartsWith(line, "Condition:") /\ DOMAIN st.current_covenant # {}
        THEN [st EXCEPT !.current_covenant =
                            Merge(@, [condition |-> AfterColon(line)])]
        ELSE st

ResponseLinePool ==
    {"Compliance Status: PASS",
     "status: fail",
     "It does not pass: FAIL",
     "- Covenant Name: OC Ratio",
     "  - Covenant Name:",
     "Threshold: 120%",
     "Threshold: 105%",
     "Condition: quarterly"}

ResponseTexts ==
    {Join(ls) : ls \in UNION {[1..n -> ResponseLinePool] : n \in 0..MaxResponseLines}}

InitParse ==
    /\ pc = "parse_call"
    /\ llm_response \in ResponseTexts
    /\ parsed = None
    /\ cov_i = 0
    /\ current_covenant = EmptyDict
    /\ covenants = <<>>
    /\ IdleExtract
    /\ compiled_patterns = REGEX_PATTERNS
    /\ loc_name = ""
    /\ loc_result = None
    /\ loc_again = None
    /\ api_key = FALSE
    /\ stips_exists = FALSE
    /\ stips = <<>>
    /\ document_text = ""
    /\ sections = EmptyDict
    /\ results = <<>>
    /\ calls = <<>>
    /\ summary = None
    /\ sum_i = 0
    /\ report = NoReport
    /\ ret = None

\* compliance_engine.py 113-143
ParseCompliance ==
    /\ pc = "parse_call"
    /\ parsed' = parse_compliance_response(llm_response)
    /\ pc' = "compliance_parsed"
    /\ UNCHANGED <<llm_response, cov_i, current_covenant, covenants,
                   run_vars, locate_vars, extract_vars>>

\* compliance_engine.py 202-206
CovenantEnter ==
    /\ pc = "parse_call"
    /\ covenants' = CovenantStart.covenants
    /\ current_covenant' = CovenantStart.current_covenant
    /\ cov_i' = 0
    /\ pc' = "covenant_loop"
    /\ UNCHANGED <<llm_response, parsed, run_vars, locate_vars, extract_vars>>

\* compliance_engine.py 206-215: one iteration
CovenantLine ==
    /\ pc = "covenant_loop"
    /\ cov_i < Len(Split(llm_response))
    /\ LET st == CovenantStep([current_covenant |-> current_covenant,
                               covenants |-> covenants],
                              Split(llm_response)[cov_i + 1])
       IN  /\ current_covenant' = st.current_covenant
           /\ covenants' = st.covenants
    /\ cov_i' = cov_i + 1
    /\ UNCHANGED <<pc, llm_response, parsed, run_vars, locate_vars, extract_vars>>

\* compliance_engine.py 217-220
CovenantReturn ==
    /\ pc = "covenant_loop"
    /\ cov_i = Len(Split(llm_response))
    /\ covenants' = Flush([current_covenant |-> current_covenant,
                           covenants |-> covenants])
    /\ pc' = "covenant_done"
    /\ UNCHANGED <<llm_response, parsed, cov_i, current_covenant,
                   run_vars, locate_vars, extract_vars>>

NextParse == ParseCompliance \/ CovenantEnter \/ CovenantLine \/ CovenantReturn

SpecParse == InitParse /\ [][NextParse]_vars

(***************************************************************************)
(* Claims about create_summary_report (specification SpecSummary).         *)
(***************************************************************************)
Returned == pc = "summary_done"

\* positions of the records whose status, as written, is in the set given
WithStatus(rs, sts) == {k \in 1..Len(rs) : "status" \in DOMAIN rs[k] /\ rs[k].status \in sts}
NoStatus(rs) == {k \in 1..Len(rs) : "status" \notin DOMAIN rs[k]}

\* C1: the returned summary has total_checks equal to the number of records
\* and equal to passed + failed + unclear, and unclear includes every record
\* whose status is absent, AMBIGUOUS, UNCLEAR or ERROR.
C1_TotalsAddUp ==
    Returned =>
        /\ summary.total_checks = Len(results)
        /\ summary.total_checks = summary.passed + summary.failed + summary.unclear
        /\ summary.unclear >=
               Cardinality(NoStatus(results)
                   \cup WithStatus(results, {"AMBIGUOUS", "UNCLEAR", "ERROR"}))

C1_Witness ==
    /\ Returned
    /\ summary.passed > 0 /\ summary.failed > 0
    /\ NoStatus(results) \cup WithStatus(results, {"ERROR", "AMBIGUOUS"}) # {}

Permute(rs, p) == [i \in 1..Len(rs) |-> rs[p[i]]]

\* C2: summarizing any permutation of the list gives the summary that
\* summarizing the list itself returned.
C2_OrderIndependent ==
    Returned =>
        \A p \in Permutations(1..Len(results)) :
            create_summary_report(Permute(results, p)) = summary

C2_Witness ==
    /\ Returned
    /\ Len(results) >= 3
    /\ WithStatus(results, {"FAIL"}) # {} /\ WithStatus(results, {"PASS"}) # {}
    /\ \E i, j \in 1..Len(results) : i < j /\ results[i] # results[j]

\* the statuses create_summary_report takes for PASS and for FAIL
IsPass(r) == "status" \in DOMAIN r /\ str_upper(r.status) = Chars("PASS")
IsFail(r) == "status" \in DOMAIN r /\ str_upper(r.status) = Chars("FAIL")

\* the loop is consuming the next record, r
Counting(r) ==
    /\ pc = "summary_loop"
    /\ sum_i' = sum_i + 1
    /\ r = results[sum_i + 1]

OnlyUnclearIncremented ==
    /\ summary'.unclear = summary.unclear + 1
    /\ summary'.passed = summary.passed
    /\ summary'.failed = summary.failed

\* C3 as stated: a record whose status is absent or is any value other than
\* "PASS" or "FAIL" increments unclear by one and no other counter, and on
\* return every record has been counted.
C3_AsStated ==
    [][/\ \A r \in SummaryRecords :
              Counting(r) /\ ("status" \notin DOMAIN r \/ r.status \notin {"PASS", "FAIL"})
                  => OnlyUnclearIncremented
       /\ pc' = "summary_done" => sum_i' = Len(results)]_vars

\* C3 amended: a record whose status is absent or, once upper-cased, is
\* neither PASS nor FAIL increments unclear by one and no other counter; on
\* return every record has been counted, in exactly one counter.
C3_UnknownCountsUnclear ==
    [][/\ \A r \in SummaryRecords :
              Counting(r) /\ ~IsPass(r) /\ ~IsFail(r) => OnlyUnclearIncremented
       /\ pc' = "summary_done" =>
              /\ sum_i' = Len(results)
              /\ summary'.unclear =
                     Cardinality({k \in 1..Len(results) :
                                      ~IsPass(results[k]) /\ ~IsFail(results[k])})]_vars

C3_Witness ==
    /\ Returned
    /\ NoStatus(results) # {}
    /\ WithStatus(results, {"ERROR", "AMBIGUOUS"}) # {}
    /\ WithStatus(results, {"pass", "Fail"}) # {}
    /\ summary.unclear = 2

(***************************************************************************)
(* Claims about run_compliance_check (specification Spec).                 *)
(***************************************************************************)
Finished == pc = "done"
Aborted == Finished /\ "error" \in DOMAIN ret
Reported == report.written

CountWhere(seq, key, value) ==
    Cardinality({k \in 1..Len(seq) : key \in DOMAIN seq[k] /\ seq[k][key] = value})

ValidStips == {k \in 1..Len(stips) : required_fields \subseteq DOMAIN stips[k]}

\* C4: when a run has ended, the report holds exactly one row for each
\* requirement that has its required fields: as many rows as such
\* requirements, and each of their ids on as many rows as requirements bear it.
C4_OneRowPerRequirement ==
    Finished =>
        /\ Len(report.rows) = Cardinality(ValidStips)
        /\ \A k \in ValidStips :
              CountWhere(report.rows, "stip_id", stips[k].id)
                  = Cardinality({j \in ValidStips : stips[j].id = stips[k].id})

\* What holds of the code: in a run that reaches the summary, the rows
\* handed to the summary and to the report are one per stipulation, in the
\* stipulations' order and with their ids.
RowsMatchWhenSummarized ==
    (pc = "save" \/ Reported) =>
        /\ Len(results) = Len(stips)
        /\ summary.total_checks = Len(stips)
        /\ Reported => report.rows = results
        /\ \A k \in 1..Len(stips) : results[k].stip_id = stips[k].id

\* C5: when the run has ended, every requirement that has all its required
\* fields has a row with its own id in the report, whatever records are
\* malformed, so the report has at least as many rows as valid requirements.
C5_MalformedSkipped ==
    Finished =>
        /\ Len(report.rows) >= Cardinality(ValidStips)
        /\ \A k \in ValidStips : \E r \in 1..Len(report.rows) : report.rows[r].stip_id = stips[k].id

IsPrefixOf(t, text) == Len(t) <= Len(text) /\ t = SubSeq(text, 1, Len(t))

\* every call made has its row, and a run that passed validation ends with
\* a row for each requirement
RunContinues ==
    /\ Len(calls) = Len(results)
    /\ Finished /\ ~Aborted => Reported /\ Len(report.rows) = Len(stips)

\* C6: a requirement whose section is not among the located sections gets
\* the complete document text as evidence, and the run goes on.
C6_FallbackIsWholeDocument ==
    /\ \A k \in 1..Len(calls) :
          ~calls[k].located => calls[k].document_section = document_text
    /\ RunContinues

\* What holds of the code: such a requirement gets the first FallbackChars
\* characters of the document text, and the run goes on.
FallbackIsPrefix ==
    /\ \A k \in 1..Len(calls) :
          ~calls[k].located =>
              /\ IsPrefixOf(calls[k].document_section, document_text)
              /\ Len(calls[k].document_section) =
                     IF Len(document_text) <= FallbackChars
                     THEN Len(document_text) ELSE FallbackChars
    /\ RunContinues

\* C7: a requirement whose oracle call raised has a row of status ERROR,
\* whatever the message of the error, and the run goes on.
C7_TransportFailureIsError ==
    /\ \A k \in 1..Len(results) :
          calls[k].outcome.kind = "raise" => results[k].status = "ERROR"
    /\ RunContinues

\* the response holds none of the status values, in any letter case
CarriesNoStatus(response) ==
    /\ ~Contains(str_upper(response), Chars("PASS"))
    /\ ~Contains(str_upper(response), Chars("FAIL"))
    /\ ~Contains(str_upper(response), Chars("AMBIGUOUS"))

\* C8: an oracle response that carries no status value gives a row of
\* status ERROR, and the run goes on to the remaining requirements.
C8_NoStatusIsError ==
    /\ \A k \in 1..Len(results) :
          calls[k].outcome.kind = "ok" /\ CarriesNoStatus(calls[k].response)
              => results[k].status = "ERROR"
    /\ RunContinues

\* What holds of the code: a response that holds neither PASS nor FAIL (in
\* any letter case) gives a row of status UNCLEAR, and no row has another
\* status than PASS, FAIL or UNCLEAR.
NoStatusIsUnclear ==
    /\ \A k \in 1..Len(results) :
          /\ results[k].status \in {"PASS", "FAIL", "UNCLEAR"}
          /\ (/\ ~Contains(str_upper(calls[k].response), Chars("PASS"))
              /\ ~Contains(str_upper(calls[k].response), Chars("FAIL")))
             => results[k].status = "UNCLEAR"
    /\ RunContinues

\* the span the evidence of a call is taken from: the located section, or
\* the document when there is none
EvidenceSpan(call) ==
    IF call.located
    THEN sections[Get(stips[call.stip], "section", DOCUMENT_SECTIONS[1])]
    ELSE document_text

\* the evidence text as it stands in the prompt of a call
EvidenceInPrompt(call) ==
    SubSeq(call.prompt, Len(PromptHead) + 1,
           Len(call.prompt) - Len(PromptTail)
               - Len(Get(stips[call.stip], "description", "")) - Len(PromptMid))

\* C9: the evidence text in every prompt is at most FallbackChars characters
\* long (the one character budget of the program) and is a prefix of the
\* span it is taken from; a document longer than the budget is never sent whole.
C9_EvidenceBounded ==
    \A k \in 1..Len(calls) :
        /\ Len(EvidenceInPrompt(calls[k])) <= FallbackChars
        /\ IsPrefixOf(EvidenceInPrompt(calls[k]), EvidenceSpan(calls[k]))
        /\ Len(document_text) > FallbackChars => EvidenceInPrompt(calls[k]) # document_text

(***************************************************************************)
(* Claims about _find_section (specification SpecLocate).                  *)
(***************************************************************************)
\* C10: in the document whose lines are 'Section 7.3 Concentration
\* Limitations', 'limit of 7.5%', 'Section 7.4 Eligibility', the section
\* located for 'Concentration Limitations' begins at the first line and ends
\* before the 'Section 7.4' line.
C10_SpanEndsBeforeNextSection ==
    /\ pc = "located"
    /\ "section_header" \in compiled_patterns
    /\ document_text =
           "Section 7.3 Concentration Limitations\nlimit of 7.5%\nSection 7.4 Eligibility"
    /\ loc_name = "Concentration Limitations"
    => loc_result = Some("Section 7.3 Concentration Limitations\nlimit of 7.5%")

(***************************************************************************)
(* Claims about _extract_until_next_section (specification SpecExtract).   *)
(***************************************************************************)
Extracted == pc = "extracted"

\* the lines of the span that was returned
SpanLines == Split(ext_content.str)

\* line i of the list is a section header for the processor
IsHeaderLine(i) ==
    /\ "section_header" \in compiled_patterns
    /\ SectionHeaderMatch(Strip(ext_lines[i]))

\* the span is the first n lines of the list, none of them after the first
\* a header, and it ends short of the list only before a header or at the
\* line budget
StopsAtHeaderOrBudget(budget) ==
    LET n == Len(SpanLines)
    IN  /\ n <= Len(ext_lines)
        /\ SpanLines = SubSeq(ext_lines, 1, n)
        /\ \A i \in 2..n : ~IsHeaderLine(i)
        /\ n < Len(ext_lines) => n >= budget \/ IsHeaderLine(n + 1)

Located == pc \in {"located", "located_again"}

DocLines == Split(document_text)

\* the lines of the document that hold the section name, letter case aside
Hits == {i \in 1..Len(DocLines) :
            Contains(str_lower(DocLines[i]), str_lower(loc_name))}

FirstHit == CHOOSE i \in Hits : \A j \in Hits : i <= j

\* C12: the located span is a run of document lines that starts at the first
\* line holding the section name; lines holding it further down neither move
\* the start nor end the span, which ends only at the end of the document or
\* before a header line (None is returned only when no line holds the name).
C12_FirstMatchWins ==
    Located /\ "section_header" \in compiled_patterns =>
        IF Hits = {} THEN loc_result = None
        ELSE /\ loc_result # None
             /\ LET span == Split(loc_result.str)
                    end == FirstHit + Len(span) - 1
                IN  /\ end <= Len(DocLines)
                    /\ span = SubSeq(DocLines, FirstHit, end)
                    /\ \/ end = Len(DocLines)
                       \/ SectionHeaderMatch(Strip(DocLines[end + 1]))

\* two lines hold the name, the first of them is not the first line of the
\* document, and the second lies inside the span
C12_Witness ==
    /\ Located
    /\ loc_result # None
    /\ Cardinality(Hits) >= 2
    /\ FirstHit >= 2
    /\ Len(Split(loc_result.str)) >= 2

EvidenceHolds(call, text) == Contains(Chars(call.document_section), Chars(text))

\* C13: a requirement 'Max 7.5%' whose evidence states the looser limit
\* 'Max 10%' gets the status FAIL, and one whose evidence states the
\* stricter limit 'Max 5%' gets the status PASS.
C13_NumericLimitRule ==
    \A k \in 1..Len(results) :
        results[k].description = "Max 7.5%" =>
            /\ EvidenceHolds(calls[k], "Max 10%") => results[k].status = "FAIL"
            /\ EvidenceHolds(calls[k], "Max 5%") => results[k].status = "PASS"

\* C14: a run whose stipulations file does not exist ends in an abort: no
\* oracle call has been made and no report has been written.
C14_UnreadableInputsAbort ==
    Finished /\ ~stips_exists => Aborted /\ calls = <<>> /\ ~Reported

\* C15: requirements are processed one at a time and in input order. The
\* k-th oracle call is the call for the k-th requirement and the k-th row
\* carries the id of the k-th requirement; a step that makes an oracle call
\* finds a row for every earlier call, adds exactly that one call, and adds
\* the row of that call at the end of the rows.
C15_OneAtATimeInOrder ==
    /\ [](\A k \in 1..Len(results) :
              /\ k <= Len(calls) /\ calls[k].stip = k
              /\ k <= Len(stips) /\ results[k].stip_id = stips[k].id)
    /\ [][calls' # calls =>
              /\ Len(results) = Len(calls)
              /\ Len(calls') = Len(calls) + 1
              /\ SubSeq(calls', 1, Len(calls)) = calls
              /\ Len(results') = Len(calls')
              /\ SubSeq(results', 1, Len(results)) = results]_vars

C15_Witness ==
    /\ Reported
    /\ Len(report.rows) = 2
    /\ stips[1].id # stips[2].id
    /\ report.rows[1].stip_id = stips[1].id
    /\ report.rows[2].stip_id = stips[2].id

(***************************************************************************)
(* Claims about the response parsers (specification SpecParse).            *)
(***************************************************************************)
HoldsUpper(word) == Contains(str_upper(llm_response), Chars(word))

\* C17: the status _parse_compliance_response returns is PASS when the
\* upper-cased response holds PASS (whether or not it holds FAIL), FAIL when
\* it holds FAIL and not PASS, and UNCLEAR when it holds neither.
C17_StatusBySubstringPrecedence ==
    pc = "compliance_parsed" =>
        /\ parsed.status \in {"PASS", "FAIL", "UNCLEAR"}
        /\ HoldsUpper("PASS") => parsed.status = "PASS"
        /\ ~HoldsUpper("PASS") /\ HoldsUpper("FAIL") => parsed.status = "FAIL"
        /\ ~HoldsUpper("PASS") /\ ~HoldsUpper("FAIL") => parsed.status = "UNCLEAR"

\* a response that holds FAIL, and PASS only in lower case, parsed to PASS
C17_Witness ==
    /\ pc = "compliance_parsed"
    /\ llm_response = "status: fail\nIt does not pass: FAIL"
    /\ parsed.status = "PASS"

\* the response lines, stripped
ResponseLines == [i \in 1..Len(Split(llm_response)) |-> Strip(Split(llm_response)[i])]

NameLines == {i \in 1..Len(ResponseLines) : StartsWith(ResponseLines[i], "- Covenant Name:")}

\* the k-th name line, in order of appearance
NameLine(k) == CHOOSE i \in NameLines : Cardinality({j \in NameLines : j <= i}) = k

\* the lines with the prefix that lie after the k-th name line and before
\* the next name line
Attached(k, prefix) ==
    {i \in 1..Len(ResponseLines) :
        /\ StartsWith(ResponseLines[i], prefix)
        /\ i > NameLine(k)
        /\ \A j \in NameLines : j > NameLine(k) => i < j}

\* the field of the covenant is absent when no such line is attached to it,
\* and else is the value of the last of them
FieldIsFrom(covenant, field, attached) ==
    IF attached = {} THEN field \notin DOMAIN covenant
    ELSE /\ field \in DOMAIN covenant
         /\ covenant[field] =
                AfterColon(ResponseLines[CHOOSE i \in attached : \A j \in attached : i >= j])

\* C18: _parse_covenant_response returns one covenant per '- Covenant
\* Name:' line, in order of appearance, each with the name of its line; a
\* covenant has a threshold (a condition) only from the 'Threshold:'
\* ('Condition:') lines between its name line and the next name line, so
\* such lines before the first name line are ignored.
C18_OneCovenantPerNameLine ==
    pc = "covenant_done" =>
        /\ Len(covenants) = Cardinality(NameLines)
        /\ \A k \in 1..Len(covenants) :
              /\ DOMAIN covenants[k] \subseteq {"name", "threshold", "condition"}
              /\ "name" \in DOMAIN covenants[k]
              /\ covenants[k].name = AfterColon(ResponseLines[NameLine(k)])
              /\ FieldIsFrom(covenants[k], "threshold", Attached(k, "Threshold:"))
              /\ FieldIsFrom(covenants[k], "condition", Attached(k, "Condition:"))

\* a threshold line before the first name line is ignored, and the one after
\* it is attached
C18_Witness ==
    /\ pc = "covenant_done"
    /\ llm_response = "Threshold: 120%\n- Covenant Name: OC Ratio\nThreshold: 105%"
    /\ covenants = <<[name |-> "OC Ratio", threshold |-> "105%"]>>

====
